---------------------------- MODULE Spec2Model ----------------------------
(***************************************************************************)
(* A model of the two reconciliation pipelines of covid-data-public:       *)
(*                                                                         *)
(*   scripts/update_covid_county_data.py  main, CovidCountyDataTransformer *)
(*   scripts/update_forecast_hub.py       ForecastHubUpdater.transform     *)
(*                                                                         *)
(* A pandas DataFrame is a sequence of rows, a row a record of its         *)
(* columns.  Dates are day numbers counted from 2019-12-01 (day 0), so     *)
(* 2020-05-14 is day 165, 2020-05-20 day 171 and 2020-08-14 day 257.  A    *)
(* FIPS code is the sequence of its decimal digits, "06037" being          *)
(* <<0,6,0,3,7>>.  A missing value (NaN, None, NaT) is NULL in a numeric   *)
(* column and NaN in a text column.                                        *)
(***************************************************************************)
EXTENDS Integers, Sequences, FiniteSets, TLC

VARIABLES
    today,                 \* datetime.date.today() of the run
    fetch_covid_us,        \* click option --fetch-covid-us
    fetch_usafacts_covid,  \* click option --fetch-usafacts-covid
    pc,                    \* position of main / of the running transform
    job,                   \* the transform that is running
    raw,                   \* the records as client.fetch() returned them
    df,                    \* the local df of the running transform
    counties,              \* the local counties of the running transform
    states,                \* the local states of the running transform
    before,                \* the tables the last operation was applied to
    log,                   \* the operations the running transform has applied
    err,                   \* the exception that ended the run
    files,                 \* the output files written by this run
    f_pc,                  \* position of ForecastHubUpdater.transform
    f_in,                  \* the long-form table handed to it
    f_df,                  \* its local df / pivot / data
    f_wide,                \* its result wide_df
    f_err                  \* the exception that ended it

vars == <<today, fetch_covid_us, fetch_usafacts_covid, pc, job, raw, df,
          counties, states, before, log, err, files,
          f_pc, f_in, f_df, f_wide, f_err>>

countyVars == <<today, fetch_covid_us, fetch_usafacts_covid, pc, job, raw, df,
                counties, states, before, log, err, files>>

forecastVars == <<f_pc, f_in, f_df, f_wide, f_err>>

---------------------------------------------------------------------------
(* Missing values.                                                         *)

NULL == 0 - 1000000

NaN == "NaN"

---------------------------------------------------------------------------
(* Bounds of the model.                                                    *)

\* Longest feed of the general family.
MaxRows == 2

\* Longest feed of the Texas county family.
MaxShiftRows == 4

---------------------------------------------------------------------------
(* Program constants, as day numbers and day counts.                       *)

\* "2019-12-01"
ANCIENT_BOUNDARY == 0

\* "2020-05-14"
FL_ICU_FIRST == 165

\* "2020-05-20"
FL_ICU_LAST == 171

\* stale_days_allowed=3
DEFAULT_STALE_DAYS == 3

\* stale_days_allowed=7
USAFACTS_STALE_DAYS == 7

---------------------------------------------------------------------------
(* Sequences.                                                              *)

Range(s) == {s[i] : i \in DOMAIN s}

RECURSIVE Filter(_, _)
\* df.loc[mask]: the rows whose position is in keep, in their order.
Filter(s, keep) ==
    IF s = <<>> THEN <<>>
    ELSE LET rest == Filter(Tail(s), {i - 1 : i \in keep \ {1}})
         IN  IF 1 \in keep THEN <<Head(s)>> \o rest ELSE rest

Where(s, P(_)) == Filter(s, {i \in DOMAIN s : P(s[i])})

SetMax(S) == CHOOSE m \in S : \A x \in S : x <= m

---------------------------------------------------------------------------
(* helpers.fips_from_int: an integer location code as a zero-padded text   *)
(* of 2 digits (below 100) or 5 digits.                                    *)

RECURSIVE Digits(_)
Digits(v) == IF v < 10 THEN <<v>> ELSE Append(Digits(v \div 10), v % 10)

RECURSIVE PadLeft(_, _)
PadLeft(s, w) == IF Len(s) >= w THEN s ELSE PadLeft(<<0>> \o s, w)

fips_from_int(v) == PadLeft(Digits(v), IF v < 100 THEN 2 ELSE 5)

\* str.startswith
StartsWith(s, p) == Len(s) >= Len(p) /\ SubSeq(s, 1, Len(p)) = p

---------------------------------------------------------------------------
(* Reference tables: data/misc/fips_population.csv and data/misc/state.txt *)

county_fips_data ==
    ( <<0,6,0,3,7>> :> [state |-> "CA", county |-> "Los Angeles County"] ) @@
    ( <<4,8,0,0,1>> :> [state |-> "TX", county |-> "Anderson County"] ) @@
    ( <<4,8,0,8,5>> :> [state |-> "TX", county |-> "Collin County"] )

census_state ==
    ( <<0,6>> :> "CA" ) @@ ( <<1,2>> :> "FL" ) @@ ( <<4,8>> :> "TX" )

---------------------------------------------------------------------------
(* The feeds.  Row i of a feed carries the values 10*i .. 10*i+6, so that  *)
(* every value of the output names the raw row and column it came from.    *)

\* Location codes of the general family: an unassigned state code, Florida,
\* Los Angeles County, an unassigned county code, Collin County.
Locations == {3, 12, 6037, 6099, 48085}

Dates == {NULL, -1, 164, 165, 166}

\* The Florida family: the days around the misleading current_icu window.
FlLocations == {12, 6037}

FlDates == {164, 165, 171, 172}

\* The Texas county family: two Texas counties on three consecutive days and
\* one county of another state.
ShiftKeys == ({48001, 48085} \X {256, 257, 258}) \cup {<<6037, 257>>}

Todays == {169, 260}

KeySeqs(keys, n) == UNION {[1..k -> keys] : k \in 1..n}

\* A feed holds at least one dated row, so that dates.max() is a date.
KeyFeeds ==
    {ks \in KeySeqs(Locations \X Dates, MaxRows) \cup
            KeySeqs(FlLocations \X FlDates, MaxRows) \cup
            KeySeqs(ShiftKeys, MaxShiftRows) :
        \E i \in DOMAIN ks : ks[i][2] # NULL}

UsaFactsKeyFeeds ==
    {ks \in KeySeqs(Locations \X Dates, MaxRows) :
        \E i \in DOMAIN ks : ks[i][2] # NULL}

\* client.covid_us(); client.fetch()
CovidUsFeed(ks) ==
    [i \in DOMAIN ks |->
        [location |-> ks[i][1], dt |-> ks[i][2],
         cases_total |-> 10 * i,
         icu_beds_in_use_covid_total |-> 10 * i + 1,
         icu_beds_capacity_count |-> 10 * i + 2,
         hospital_beds_in_use_any |-> 10 * i + 3,
         hospital_beds_capacity_count |-> 10 * i + 4,
         icu_beds_in_use_any |-> 10 * i + 5,
         active_total |-> 10 * i + 6]]

\* client.usafacts_covid(); client.fetch()
UsaFactsFeed(ks) ==
    [i \in DOMAIN ks |->
        [fips |-> ks[i][1], dt |-> ks[i][2],
         cases_total |-> 10 * i, deaths_total |-> 10 * i + 1]]

---------------------------------------------------------------------------
(* Columns.                                                                *)

TextColumns == {"country", "state", "county", "aggregate_level"}

NullOf(col) == IF col \in TextColumns THEN NaN ELSE NULL

\* df.drop(cols, axis="columns") of one row
DropColumns(r, cols) == [c \in (DOMAIN r) \ cols |-> r[c]]

\* df[col] = v of one row
SetColumn(r, col, v) == [c \in (DOMAIN r) \cup {col} |-> IF c = col THEN v ELSE r[c]]

\* pd.concat([a, b]) of two frames whose columns together are cols: the rows of
\* a, then the rows of b; a column a row does not have is missing in it.
Concat(a, b, cols) ==
    LET fill(r) == [c \in cols |-> IF c \in DOMAIN r THEN r[c] ELSE NullOf(c)]
    IN  [i \in DOMAIN a |-> fill(a[i])] \o [i \in DOMAIN b |-> fill(b[i])]

\* COMMON_FIELDS_TIMESERIES_KEYS
TimeseriesKey(r) == <<r.fips, r.date>>

---------------------------------------------------------------------------
(* _fail_if_no_recent_dates                                                *)

\* dates.max(), which skips missing dates
LatestDt(dates) == SetMax({dates[i] : i \in DOMAIN dates} \ {NULL})

\* The check with <= for <.
FailIfNotNewer(dates, stale_days_allowed) ==
    LatestDt(dates) <= today - stale_days_allowed

\* TRUE when StaleDataError is raised
fail_if_no_recent_dates(dates, stale_days_allowed) ==
    LatestDt(dates) < today - stale_days_allowed

StaleDaysAllowed(j) ==
    IF j = "covid_us" THEN DEFAULT_STALE_DAYS ELSE USAFACTS_STALE_DAYS

---------------------------------------------------------------------------
(* helpers.rename_fields: the columns that have a common field, under its  *)
(* name; the already transformed fips is kept, every other column dropped. *)

RenameCovidUs(r) ==
    [fips |-> r.fips, date |-> r.dt, cases |-> r.cases_total,
     current_icu |-> r.icu_beds_in_use_covid_total,
     icu_beds |-> r.icu_beds_capacity_count,
     hospital_beds_in_use_any |-> r.hospital_beds_in_use_any,
     staffed_beds |-> r.hospital_beds_capacity_count,
     current_icu_total |-> r.icu_beds_in_use_any]

RenameUsaFacts(r) ==
    [fips |-> r.fips, date |-> r.dt, cases |-> r.cases_total,
     deaths |-> r.deaths_total]

\* The columns of the renamed frame.
RenamedColumns(j) ==
    IF j = "covid_us"
    THEN {"fips", "date", "cases", "current_icu", "icu_beds",
          "hospital_beds_in_use_any", "staffed_beds", "current_icu_total"}
    ELSE {"fips", "date", "cases", "deaths"}

\* The columns of the counties frame, which the states frame has but for
\* county and the dropped ones.
CountiesColumns(j) ==
    RenamedColumns(j) \cup {"country", "state", "county", "aggregate_level"}

---------------------------------------------------------------------------
(* CovidCountyDataTransformer._counties_states_with_geoattributes          *)

IsStateFips(r) == Len(r.fips) = 2

IsCountyFips(r) == Len(r.fips) # 2

\* counties.merge(fips_data[[STATE, COUNTY]], how="left") of one row
MergeCounty(r) ==
    IF r.fips \in DOMAIN county_fips_data
    THEN SetColumn(SetColumn(r, "state", county_fips_data[r.fips].state),
                   "county", county_fips_data[r.fips].county)
    ELSE SetColumn(SetColumn(r, "state", NaN), "county", NaN)

\* states.merge(state_df[[STATE]], how="left") of one row
MergeState(r) ==
    SetColumn(r, "state",
              IF r.fips \in DOMAIN census_state THEN census_state[r.fips] ELSE NaN)

HasState(r) == r.state # NaN

GeoCounties(d) ==
    LET merged  == [i \in DOMAIN d |-> MergeCounty(d[i])]
        matched == Where(merged, HasState)
    IN  [i \in DOMAIN matched |-> SetColumn(matched[i], "aggregate_level", "county")]

GeoStates(d) ==
    [i \in DOMAIN d |-> SetColumn(MergeState(d[i]), "aggregate_level", "state")]

counties_states_with_geoattributes(d) ==
    LET usa == [i \in DOMAIN d |-> SetColumn(d[i], "country", "USA")]
    IN  [counties |-> GeoCounties(Where(usa, IsCountyFips)),
         states   |-> GeoStates(Where(usa, IsStateFips))]

---------------------------------------------------------------------------
(* The date shift of the Texas counties.                                   *)

is_tx_counties(r) == StartsWith(r.fips, <<4, 8>>)

NotTxCounty(r) == ~is_tx_counties(r)

\* shift(1) for shift(-1): every row takes the values of the row before it.
ShiftedForwardTxCounties(tx) ==
    [i \in 1..(Len(tx) - 1) |-> [tx[i] EXCEPT !.date = tx[i + 1].date]]

\* tx_counties.shift(-1): with DATE as the index, every column of a row takes
\* the value of the next row of the frame; the last row is left all missing.
\* dropna(how="all") then drops that row.
ShiftedTxCounties(tx) ==
    [i \in 1..(Len(tx) - 1) |-> [tx[i + 1] EXCEPT !.date = tx[i].date]]

shift_tx_counties(c) ==
    Where(c, NotTxCounty) \o ShiftedTxCounties(Where(c, is_tx_counties))

---------------------------------------------------------------------------
(* update_nytimes_data.remove_county_backfilled_cases                      *)

\* update_nytimes_data.COUNTY_BACKFILLED_CASES: Collin County, 2020-08-14
COUNTY_BACKFILLED_CASES ==
    << [fips |-> <<4,8,0,8,5>>, date |-> 257, cases |-> 1175] >>

BackfillOne(r, b) ==
    IF r.fips = b.fips /\ r.date # NULL /\ r.date >= b.date /\ r.cases # NULL
    THEN [r EXCEPT !.cases = @ - b.cases]
    ELSE r

RECURSIVE BackfillRow(_, _)
BackfillRow(r, bs) ==
    IF bs = <<>> THEN r ELSE BackfillRow(BackfillOne(r, Head(bs)), Tail(bs))

remove_county_backfilled_cases(c, backfilled_cases) ==
    [i \in DOMAIN c |-> BackfillRow(c[i], backfilled_cases)]

---------------------------------------------------------------------------
(* The state level bed columns.                                            *)

\* The list without its first entry.
StateColumnsToDropWithoutIcuBeds ==
    {"hospital_beds_in_use_any", "staffed_beds", "current_icu_total"}

state_columns_to_drop ==
    {"icu_beds", "hospital_beds_in_use_any", "staffed_beds", "current_icu_total"}

drop_state_columns(s) ==
    [i \in DOMAIN s |-> DropColumns(s[i], state_columns_to_drop)]

---------------------------------------------------------------------------
(* CovidCountyDataTransformer._drop_bad_rows                               *)

\* The mask without its STATE term.
BadRowsWithoutState(r) == r.fips = <<>> \/ r.date = NULL

bad_rows(r) == r.fips = <<>> \/ r.date = NULL \/ r.state = NaN

NotBadRow(r) == ~bad_rows(r)

ancient_rows(r) == r.date # NULL /\ r.date < ANCIENT_BOUNDARY

NotAncientRow(r) == ~ancient_rows(r)

drop_null_keys(d) == Where(d, NotBadRow)

drop_ancient(d) == Where(d, NotAncientRow)

---------------------------------------------------------------------------
(* The misleading FL current_icu values.                                   *)

\* The window without its last day.
IncorrectFlIcuDatesOpenEnd(r) ==
    r.date # NULL /\ FL_ICU_FIRST <= r.date /\ r.date < FL_ICU_LAST

is_incorrect_fl_icu_dates(r) ==
    r.date # NULL /\ FL_ICU_FIRST <= r.date /\ r.date <= FL_ICU_LAST

is_fl_state(r) == r.fips = <<1, 2>>

fix_fl_icu(d) ==
    [i \in DOMAIN d |->
        IF is_fl_state(d[i]) /\ is_incorrect_fl_icu_dates(d[i])
        THEN [d[i] EXCEPT !.current_icu = NULL]
        ELSE d[i]]

---------------------------------------------------------------------------
(* set_index(COMMON_FIELDS_TIMESERIES_KEYS, verify_integrity=True)         *)

\* verify_integrity=False
DuplicateKeysUnverified(d) == FALSE

\* TRUE when the index has duplicate keys, and ValueError is raised
has_duplicate_keys(d) ==
    \E i, j \in DOMAIN d : i # j /\ TimeseriesKey(d[i]) = TimeseriesKey(d[j])

---------------------------------------------------------------------------
(* The order of the statements of the two transforms, and of main.         *)

\* transform with the known bad value correction ahead of _drop_bad_rows.
TransformStepsFixBeforeDrop ==
    <<"fetch", "stale", "fips", "rename", "geo", "shift", "backfill",
      "dropcols", "concat", "fixfl", "nullkey", "ancient", "setindex", "write">>

\* CovidCountyDataTransformer.transform
TransformSteps ==
    <<"fetch", "stale", "fips", "rename", "geo", "shift", "backfill",
      "dropcols", "concat", "nullkey", "ancient", "fixfl", "setindex", "write">>

\* CovidCountyDataTransformer.transform_usafacts
TransformUsaFactsSteps ==
    <<"fetch", "stale", "fips", "rename", "geo", "concat", "nullkey", "ancient",
      "setindex", "write">>

Steps(j) == IF j = "covid_us" THEN TransformSteps ELSE TransformUsaFactsSteps

\* The statement after statement p of transform j.
After(j, p) ==
    LET s == Steps(j)
        i == CHOOSE k \in DOMAIN s : s[k] = p
    IN  s[i + 1]

OutputFile(j) ==
    IF j = "covid_us" THEN "timeseries-common.csv" ELSE "timeseries-usafacts.csv"

NoTable == <<>>

Tables == [df |-> df, counties |-> counties, states |-> states]

NoTables == [df |-> NoTable, counties |-> NoTable, states |-> NoTable]

---------------------------------------------------------------------------
(* The state after construction, and the steps of main.                    *)

ForecastIdle ==
    /\ f_pc = "idle"
    /\ f_in = <<>>
    /\ f_df = <<>>
    /\ f_wide = [columns |-> {}, rows |-> {}]
    /\ f_err = "none"

Init ==
    /\ today \in Todays
    /\ fetch_covid_us \in BOOLEAN
    /\ fetch_usafacts_covid \in BOOLEAN
    /\ pc = "main"
    /\ job = "none"
    /\ raw = NoTable
    /\ df = NoTable
    /\ counties = NoTable
    /\ states = NoTable
    /\ before = NoTables
    /\ log = <<>>
    /\ err = "none"
    /\ files = {}
    /\ ForecastIdle

\* An exception leaves transform and main: nothing after it runs.
Raise(e) ==
    /\ pc' = "aborted"
    /\ err' = e

\* Statement p of the running transform is done.
Advance(p) ==
    /\ pc' = After(job, p)
    /\ before' = Tables
    /\ log' = Append(log, p)
    /\ err' = err

\* main creating the output file before it calls the transform.
MainCreatesFileFirst ==
    /\ pc = "main"
    /\ job' = IF fetch_covid_us THEN "covid_us"
              ELSE IF fetch_usafacts_covid THEN "usafacts" ELSE "none"
    /\ pc' = IF fetch_covid_us \/ fetch_usafacts_covid THEN "fetch" ELSE "done"
    /\ files' = IF fetch_covid_us \/ fetch_usafacts_covid
                THEN {OutputFile(job')} ELSE {}
    /\ UNCHANGED <<today, fetch_covid_us, fetch_usafacts_covid, raw, df,
                   counties, states, before, log, err, forecastVars>>

\* main, entered: the first transform that is enabled starts.
Main ==
    /\ pc = "main"
    /\ job' = IF fetch_covid_us THEN "covid_us"
              ELSE IF fetch_usafacts_covid THEN "usafacts" ELSE "none"
    /\ pc' = IF fetch_covid_us \/ fetch_usafacts_covid THEN "fetch" ELSE "done"
    /\ UNCHANGED <<today, fetch_covid_us, fetch_usafacts_covid, raw, df,
                   counties, states, before, log, err, files, forecastVars>>

\* client.fetch() returns the records of the feed.
Fetch ==
    /\ pc = "fetch"
    /\ \E ks \in (IF job = "covid_us" THEN KeyFeeds ELSE UsaFactsKeyFeeds) :
          LET feed == IF job = "covid_us" THEN CovidUsFeed(ks) ELSE UsaFactsFeed(ks)
          IN  /\ raw' = feed
              /\ df' = feed
    /\ Advance("fetch")
    /\ UNCHANGED <<today, fetch_covid_us, fetch_usafacts_covid, job,
                   counties, states, files, forecastVars>>

\* client.fetch() raises a transport or authentication error.
FetchFails ==
    /\ pc = "fetch"
    /\ Raise("FetchError")
    /\ UNCHANGED <<today, fetch_covid_us, fetch_usafacts_covid, job, raw, df,
                   counties, states, before, log, files, forecastVars>>

\* _fail_if_no_recent_dates(df[Fields.DT])
CheckStale ==
    /\ pc = "stale"
    /\ IF fail_if_no_recent_dates([i \in DOMAIN df |-> df[i].dt], StaleDaysAllowed(job))
       THEN /\ Raise("StaleDataError")
            /\ UNCHANGED <<before, log>>
       ELSE Advance("stale")
    /\ UNCHANGED <<today, fetch_covid_us, fetch_usafacts_covid, job, raw, df,
                   counties, states, files, forecastVars>>

\* df[CommonFields.FIPS] = helpers.fips_from_int(df[Fields.LOCATION])
DeriveFips ==
    /\ pc = "fips"
    /\ df' = [i \in DOMAIN df |->
                SetColumn(df[i], "fips",
                          fips_from_int(IF job = "covid_us" THEN df[i].location
                                        ELSE df[i].fips))]
    /\ Advance("fips")
    /\ UNCHANGED <<today, fetch_covid_us, fetch_usafacts_covid, job, raw,
                   counties, states, files, forecastVars>>

\* df = helpers.rename_fields(df, Fields, already_transformed_fields, self.log)
RenameFields ==
    /\ pc = "rename"
    /\ df' = [i \in DOMAIN df |->
                IF job = "covid_us" THEN RenameCovidUs(df[i]) ELSE RenameUsaFacts(df[i])]
    /\ Advance("rename")
    /\ UNCHANGED <<today, fetch_covid_us, fetch_usafacts_covid, job, raw,
                   counties, states, files, forecastVars>>

\* counties, states = self._counties_states_with_geoattributes(df)
GeoResolve ==
    /\ pc = "geo"
    /\ LET cs == counties_states_with_geoattributes(df)
       IN  /\ counties' = cs.counties
           /\ states' = cs.states
    /\ Advance("geo")
    /\ UNCHANGED <<today, fetch_covid_us, fetch_usafacts_covid, job, raw, df,
                   files, forecastVars>>

\* The date shift of the Texas counties.
ShiftTx ==
    /\ pc = "shift"
    /\ counties' = shift_tx_counties(counties)
    /\ Advance("shift")
    /\ UNCHANGED <<today, fetch_covid_us, fetch_usafacts_covid, job, raw, df,
                   states, files, forecastVars>>

\* counties = update_nytimes_data.remove_county_backfilled_cases(counties, ...)
RemoveBackfill ==
    /\ pc = "backfill"
    /\ counties' = remove_county_backfilled_cases(counties, COUNTY_BACKFILLED_CASES)
    /\ Advance("backfill")
    /\ UNCHANGED <<today, fetch_covid_us, fetch_usafacts_covid, job, raw, df,
                   states, files, forecastVars>>

\* states = states.drop(state_columns_to_drop, axis="columns")
DropStateColumns ==
    /\ pc = "dropcols"
    /\ states' = drop_state_columns(states)
    /\ Advance("dropcols")
    /\ UNCHANGED <<today, fetch_covid_us, fetch_usafacts_covid, job, raw, df,
                   counties, files, forecastVars>>

\* df = pd.concat([states, counties]); sort_common_field_columns orders the
\* columns, which a record does not order.
ConcatTables ==
    /\ pc = "concat"
    /\ df' = Concat(states, counties, CountiesColumns(job))
    /\ Advance("concat")
    /\ UNCHANGED <<today, fetch_covid_us, fetch_usafacts_covid, job, raw,
                   counties, states, files, forecastVars>>

\* _drop_bad_rows, first half: rows with a null FIPS, DATE or STATE
DropNullKeys ==
    /\ pc = "nullkey"
    /\ df' = drop_null_keys(df)
    /\ Advance("nullkey")
    /\ UNCHANGED <<today, fetch_covid_us, fetch_usafacts_covid, job, raw,
                   counties, states, files, forecastVars>>

\* _drop_bad_rows, second half: rows before 2019-12-01
DropAncient ==
    /\ pc = "ancient"
    /\ df' = drop_ancient(df)
    /\ Advance("ancient")
    /\ UNCHANGED <<today, fetch_covid_us, fetch_usafacts_covid, job, raw,
                   counties, states, files, forecastVars>>

\* df.loc[is_fl_state & is_incorrect_fl_icu_dates, CURRENT_ICU] = None
FixFlIcu ==
    /\ pc = "fixfl"
    /\ df' = fix_fl_icu(df)
    /\ Advance("fixfl")
    /\ UNCHANGED <<today, fetch_covid_us, fetch_usafacts_covid, job, raw,
                   counties, states, files, forecastVars>>

\* df = df.set_index(COMMON_FIELDS_TIMESERIES_KEYS, verify_integrity=True)
\* and return df
SetIndex ==
    /\ pc = "setindex"
    /\ IF has_duplicate_keys(df)
       THEN /\ Raise("ValueError")
            /\ before' = Tables
            /\ log' = log
       ELSE Advance("setindex")
    /\ UNCHANGED <<today, fetch_covid_us, fetch_usafacts_covid, job, raw, df,
                   counties, states, files, forecastVars>>

\* common_df.write_csv(common_df.only_common_columns(<the table>), <file>);
\* main goes on to the next enabled transform, whose locals are fresh.
WriteCsv ==
    /\ pc = "write"
    /\ files' = files \cup {OutputFile(job)}
    /\ IF job = "covid_us" /\ fetch_usafacts_covid
       THEN /\ job' = "usafacts"
            /\ pc' = "fetch"
       ELSE /\ job' = "none"
            /\ pc' = "done"
    /\ raw' = NoTable
    /\ df' = NoTable
    /\ counties' = NoTable
    /\ states' = NoTable
    /\ before' = NoTables
    /\ log' = <<>>
    /\ UNCHANGED <<today, fetch_covid_us, fetch_usafacts_covid, err, forecastVars>>

Next ==
    \/ Main
    \/ Fetch
    \/ FetchFails
    \/ CheckStale
    \/ DeriveFips
    \/ RenameFields
    \/ GeoResolve
    \/ ShiftTx
    \/ RemoveBackfill
    \/ DropStateColumns
    \/ ConcatTables
    \/ DropNullKeys
    \/ DropAncient
    \/ FixFlIcu
    \/ SetIndex
    \/ WriteCsv

Spec == Init /\ [][Next]_vars

---------------------------------------------------------------------------
(* What the claims speak of.                                               *)

Last(s) == s[Len(s)]

\* The operation that has just acted, "" before the first.
JustDone == IF log = <<>> THEN "" ELSE Last(log)

\* transform or transform_usafacts has returned its table, which is df.
Returned == pc = "write"

KeysPairwiseDistinct(t) ==
    \A i, j \in DOMAIN t : (t[i].fips = t[j].fips /\ t[i].date = t[j].date) => i = j

\* The latest date of the raw feed.
RawLatest == CHOOSE m \in {raw[i].dt : i \in DOMAIN raw} \ {NULL} :
                 \A i \in DOMAIN raw : raw[i].dt <= m

NullKeyRow(r) == r.fips = <<>> \/ r.date = NULL \/ r.state = NaN

AncientRow(r) == r.date # NULL /\ r.date < 0

\* The rank of a quality filter operation in an order of them, 0 for an
\* operation that is none of them.
Rank(order, op) ==
    IF \E k \in DOMAIN order : order[k] = op
    THEN CHOOSE k \in DOMAIN order : order[k] = op
    ELSE 0

\* The quality filter operations of the log follow one another as in order.
LogFollows(order) ==
    \A i, j \in DOMAIN log :
        (i < j /\ Rank(order, log[i]) > 0 /\ Rank(order, log[j]) > 0)
            => Rank(order, log[i]) < Rank(order, log[j])

---------------------------------------------------------------------------
(* C1: the (FIPS, DATE) keys of a returned table are pairwise distinct, the *)
(* returned table is the table that reached the final step, with no row    *)
(* lost, and a table that reaches the final step with two rows of the same *)
(* key ends the run with an error instead of being returned.               *)
C1_UniqueKeysOrAbort ==
    /\ Returned =>
          /\ KeysPairwiseDistinct(df)
          /\ JustDone = "setindex"
          /\ df = before.df
    /\ (Returned \/ err = "ValueError") =>
          (KeysPairwiseDistinct(before.df) <=> Returned)
    /\ err = "ValueError" => pc = "aborted" /\ OutputFile(job) \notin files

\* Two rows of one key reached the final step and the run was aborted.
C1_Witness ==
    /\ pc = "aborted"
    /\ err = "ValueError"
    /\ Len(before.df) >= 2
    /\ ~KeysPairwiseDistinct(before.df)

---------------------------------------------------------------------------
(* C2: every row of a returned table has a FIPS, a STATE and a DATE, and   *)
(* carries the aggregate level of its partition: "state" for a 2-digit     *)
(* FIPS, "county" for any other.                                           *)
C2_KeysPresentAndLevelTagged ==
    Returned =>
        \A i \in DOMAIN df :
            /\ df[i].fips # <<>>
            /\ df[i].state # NaN
            /\ df[i].date # NULL
            /\ df[i].aggregate_level =
                   (IF Len(df[i].fips) = 2 THEN "state" ELSE "county")

\* A table was returned from a feed with a code that has no match in the
\* reference tables.
C2_Witness ==
    /\ Returned
    /\ df # <<>>
    /\ \E i \in DOMAIN raw :
          /\ fips_from_int(IF job = "covid_us" THEN raw[i].location ELSE raw[i].fips)
                 \notin (DOMAIN county_fips_data) \cup (DOMAIN census_state)
          /\ raw[i].dt \notin {NULL, -1}

---------------------------------------------------------------------------
(* C3: the staleness check raises StaleDataError exactly when the latest   *)
(* date of the raw feed is before today minus the threshold; a latest date *)
(* of today minus 4 fails the threshold 3 and passes the threshold 4; and  *)
(* the check is applied to the records as fetched, before anything else.   *)
C3_StalenessBoundary ==
    /\ err = "StaleDataError" =>
          /\ RawLatest < today - StaleDaysAllowed(job)
          /\ log = <<"fetch">>
          /\ df = raw
    /\ JustDone = "stale" =>
          /\ RawLatest >= today - StaleDaysAllowed(job)
          /\ log = <<"fetch", "stale">>
          /\ df = raw
    /\ Len(log) >= 2 => log[2] = "stale"
    /\ (raw # <<>> /\ RawLatest = today - 4) =>
          /\ fail_if_no_recent_dates([i \in DOMAIN raw |-> raw[i].dt], 3)
          /\ ~fail_if_no_recent_dates([i \in DOMAIN raw |-> raw[i].dt], 4)

\* A feed whose latest date is today minus 4 failed the threshold 3.
C3_Witness ==
    /\ err = "StaleDataError"
    /\ job = "covid_us"
    /\ RawLatest = today - 4

---------------------------------------------------------------------------
(* C4, as claimed: when a run with both fetches enabled is aborted, it has *)
(* written neither output file.                                            *)
C4_NoFileOnAbort ==
    (pc = "aborted" /\ fetch_covid_us /\ fetch_usafacts_covid) => files = {}

(* C4, amended: when a run with both fetches enabled is aborted, it has    *)
(* not written the file of the transform that raised, nor                  *)
(* timeseries-usafacts.csv; an error raised in transform_usafacts finds    *)
(* timeseries-common.csv already written.                                   *)
C4_NoFileOfFailedTransform ==
    (pc = "aborted" /\ fetch_covid_us /\ fetch_usafacts_covid) =>
        /\ OutputFile(job) \notin files
        /\ "timeseries-usafacts.csv" \notin files
        /\ files = (IF job = "usafacts" THEN {"timeseries-common.csv"} ELSE {})

\* transform_usafacts raised after timeseries-common.csv was written.
C4_Witness ==
    /\ pc = "aborted"
    /\ job = "usafacts"
    /\ err # "none"
    /\ files = {"timeseries-common.csv"}

---------------------------------------------------------------------------
(* C5, as claimed: the quality filter operations act in the order          *)
(* staleness check, null-key rejection, ancient-data rejection, known bad  *)
(* value correction, backfill suppression, and backfill suppression is     *)
(* never applied to a table with a null-key or an ancient row.             *)
C5_ClaimedOrder ==
    /\ LogFollows(<<"stale", "nullkey", "ancient", "fixfl", "backfill">>)
    /\ JustDone = "backfill" =>
          \A i \in DOMAIN before.counties :
              ~NullKeyRow(before.counties[i]) /\ ~AncientRow(before.counties[i])

(* C5, amended: the quality filter operations act in the order staleness   *)
(* check, backfill suppression, null-key rejection, ancient-data           *)
(* rejection, known bad value correction; ancient-data rejection sees no   *)
(* null-key row and known bad value correction sees neither a null-key nor *)
(* an ancient row.                                                          *)
C5_ActualOrder ==
    /\ LogFollows(<<"stale", "backfill", "nullkey", "ancient", "fixfl">>)
    /\ JustDone = "ancient" =>
          \A i \in DOMAIN before.df : ~NullKeyRow(before.df[i])
    /\ JustDone = "fixfl" =>
          \A i \in DOMAIN before.df :
              ~NullKeyRow(before.df[i]) /\ ~AncientRow(before.df[i])
    /\ (Returned /\ job = "covid_us") =>
          \A op \in {"stale", "backfill", "nullkey", "ancient", "fixfl"} :
              \E k \in DOMAIN log : log[k] = op

\* Backfill suppression was applied to a table with a null-key or an ancient
\* row, and known bad value correction later ran on the cleaned table.
C5_Witness ==
    /\ JustDone = "fixfl"
    /\ \E i \in DOMAIN counties : NullKeyRow(counties[i]) \/ AncientRow(counties[i])
    /\ before.df # <<>>

---------------------------------------------------------------------------
(* The date shift, as the claims state it.                                 *)

TxRow(r) == Len(r.fips) = 5 /\ r.fips[1] = 4 /\ r.fips[2] = 8

NotTxRow(r) == ~TxRow(r)

\* The rows of table t for FIPS f that are dated after day d.
LaterRows(t, f, d) == {r \in Range(t) : r.fips = f /\ r.date > d}

\* Row r carries the values table t has for the FIPS of r on the next day of
\* that FIPS after the date of r.
CarriesNextDayOfOwnSeries(r, t) ==
    \E b \in LaterRows(t, r.fips, r.date) :
        /\ \A c \in LaterRows(t, r.fips, r.date) : b.date <= c.date
        /\ r = [b EXCEPT !.date = r.date]

\* Every row of table t has a date, the rows of a FIPS follow one another,
\* and they are in the order of their dates, no date twice.
SeriesInOrder(t) ==
    /\ \A i \in DOMAIN t : t[i].date # NULL
    /\ \A i, j \in DOMAIN t :
          (i < j /\ t[i].fips = t[j].fips) =>
              /\ t[i].date < t[j].date
              /\ \A k \in i..j : t[k].fips = t[i].fips

\* The Texas rows of table t are the series of one county on consecutive
\* days, in the order of the days.
SingleTxSeries(t) ==
    LET tx == Where(t, TxRow)
    IN  /\ tx # <<>>
        /\ \A i \in DOMAIN tx : tx[i].fips = tx[1].fips
        /\ \A i \in DOMAIN tx : tx[i].date = tx[1].date + (i - 1)

---------------------------------------------------------------------------
(* C6: after the date shift every row of a Texas county carries the values *)
(* the table had before the shift for the same FIPS on the next day of     *)
(* that FIPS, whatever the number of Texas counties.  Stated here for the  *)
(* row order kindest to the code: each county's rows together, by date.    *)
C6_ShiftWithinOwnSeries ==
    (JustDone = "shift" /\ SeriesInOrder(before.counties)) =>
        \A i \in DOMAIN counties :
            TxRow(counties[i]) =>
                CarriesNextDayOfOwnSeries(counties[i], before.counties)

---------------------------------------------------------------------------
(* C7: when the Texas rows are the series of one county on consecutive     *)
(* days d1..dn, the date shift leaves n-1 Texas rows, the i-th dated di    *)
(* and carrying the values of day d(i+1); the rows of other counties are   *)
(* kept as they were.                                                      *)
C7_SingleSeriesShift ==
    (JustDone = "shift" /\ SingleTxSeries(before.counties)) =>
        LET tx   == Where(before.counties, TxRow)
            post == Where(counties, TxRow)
        IN  /\ Len(post) = Len(tx) - 1
            /\ Len(counties) = Len(before.counties) - 1
            /\ \A i \in DOMAIN post :
                  /\ post[i].date = tx[i].date
                  /\ post[i] = [tx[i + 1] EXCEPT !.date = tx[i].date]
            /\ Where(counties, NotTxRow) = Where(before.counties, NotTxRow)

\* The series 10, 20, 30 of one Texas county became 20, 30 on its first two
\* days.
C7_Witness ==
    /\ JustDone = "shift"
    /\ SingleTxSeries(before.counties)
    /\ LET tx   == Where(before.counties, TxRow)
           post == Where(counties, TxRow)
       IN  /\ [i \in DOMAIN tx |-> tx[i].cases] = <<10, 20, 30>>
           /\ [i \in DOMAIN post |-> post[i].cases] = <<20, 30>>
           /\ [i \in DOMAIN post |-> post[i].date] = <<tx[1].date, tx[2].date>>

---------------------------------------------------------------------------
(* C8: known bad value correction nulls CURRENT_ICU of the rows of FIPS    *)
(* "12" dated 2020-05-14 to 2020-05-20, keeps those rows and their other   *)
(* fields, and changes no other row; the returned table shows it.          *)
InFlIcuWindow(r) == r.fips = <<1, 2>> /\ r.date >= 165 /\ r.date <= 171

C8_FlIcuNulledInPlace ==
    /\ JustDone = "fixfl" =>
          /\ Len(df) = Len(before.df)
          /\ \A i \in DOMAIN df :
                df[i] = (IF InFlIcuWindow(before.df[i])
                         THEN [before.df[i] EXCEPT !.current_icu = NULL]
                         ELSE before.df[i])
    /\ (Returned /\ job = "covid_us") =>
          \A i \in DOMAIN df :
              IF InFlIcuWindow(df[i])
              THEN df[i].current_icu = NULL
              ELSE df[i].current_icu # NULL

\* A returned table holds a Florida row of the last day of the window, its
\* current_icu nulled and its cases kept, and a row the correction left alone.
C8_Witness ==
    /\ Returned
    /\ job = "covid_us"
    /\ \E i, j \in DOMAIN df :
          /\ df[i].fips = <<1, 2>>
          /\ df[i].date = 171
          /\ df[i].current_icu = NULL
          /\ df[i].cases # NULL
          /\ df[j].fips = <<1, 2>>
          /\ df[j].date = 172
          /\ df[j].current_icu # NULL

---------------------------------------------------------------------------
(* ForecastHubUpdater.transform.  A text is the sequence of its            *)
(* characters, so that split(" ") and int() are computed; a quantile is a  *)
(* number of thousandths, 0.1 being 100.                                   *)

\* Longest long-form table of the general family.
MaxForecastRows == 2

\* Longest long-form table of the pivot family.
MaxPivotRows == 3

\* Most rows that follow the three "case" quantile rows of a synthetic table.
MaxExtraRows == 2

\* Time Horizon - Only keep up to 4 week forecasts.
HORIZON_WEEKS == 4

DAYS_PER_WEEK == 7

SPACE == " "

Wk == <<"w", "k">>

Ahead == <<"a", "h", "e", "a", "d">>

Inc == <<"i", "n", "c">>

Cum == <<"c", "u", "m">>

Case == <<"c", "a", "s", "e">>

Death == <<"d", "e", "a", "t", "h">>

\* A token that is missing: .str[-2] of a list with fewer than two tokens.
NoToken == <<"NaN">>

RECURSIVE JoinTokens(_)
\* " ".join(tokens)
JoinTokens(tokens) ==
    IF Len(tokens) = 1 THEN tokens[1]
    ELSE tokens[1] \o <<SPACE>> \o JoinTokens(Tail(tokens))

RECURSIVE SplitFrom(_, _, _)
\* str.split(" "): the texts between the spaces of s, cur being the text read
\* since the last space and acc the tokens before it.
SplitFrom(s, cur, acc) ==
    IF s = <<>> THEN Append(acc, cur)
    ELSE IF Head(s) = SPACE THEN SplitFrom(Tail(s), <<>>, Append(acc, cur))
    ELSE SplitFrom(Tail(s), Append(cur, Head(s)), acc)

Split(s) == SplitFrom(s, <<>>, <<>>)

DigitValue ==
    ("0" :> 0) @@ ("1" :> 1) @@ ("2" :> 2) @@ ("3" :> 3) @@ ("4" :> 4) @@
    ("5" :> 5) @@ ("6" :> 6) @@ ("7" :> 7) @@ ("8" :> 8) @@ ("9" :> 9)

\* int(t) returns: t is a decimal numeral.
IsInt(t) == t # <<>> /\ \A i \in DOMAIN t : t[i] \in DOMAIN DigitValue

RECURSIVE IntOf(_)
\* int(t), NULL where int(t) raises
IntOf(t) ==
    IF ~IsInt(t) THEN NULL
    ELSE IF Len(t) = 1 THEN DigitValue[t[1]]
    ELSE 10 * IntOf(SubSeq(t, 1, Len(t) - 1)) + DigitValue[t[Len(t)]]

\* .str[-1]
LastToken(tokens) == tokens[Len(tokens)]

\* .str[-2]
PenultimateToken(tokens) ==
    IF Len(tokens) >= 2 THEN tokens[Len(tokens) - 1] ELSE NoToken

\* str(quantile)
QuantileStr == (100 :> "0.1") @@ (500 :> "0.5") @@ (900 :> "0.9")

---------------------------------------------------------------------------
(* The long-form tables.  Row i carries the value 10*i.                    *)

ForecastTargets ==
    { JoinTokens(<<<<"1">>, Wk, Inc, Case>>),
      JoinTokens(<<<<"4">>, Wk, Inc, Case>>),
      JoinTokens(<<<<"5">>, Wk, Inc, Case>>),
      JoinTokens(<<<<"1">>, Wk, Cum, Case>>),
      JoinTokens(<<<<"1">>, Wk, Inc, Death>>),
      JoinTokens(<<<<"1">>, Wk, Inc>>),
      JoinTokens(<<<<"1">>, Wk, Ahead, Inc, Case>>),
      JoinTokens(<<<<"x">>, Wk, Inc, Case>>) }

ForecastKeys == {"US", "06"} \X ForecastTargets \X {NULL, 100, 500}

PivotTargets ==
    { JoinTokens(<<<<"1">>, Wk, Inc, Case>>),
      JoinTokens(<<<<"1">>, Wk, Inc, Death>>) }

PivotKeys == {"06", "48"} \X PivotTargets \X {100, 500, 900}

\* The three quantiles of one region's "case" target, in any order of rows.
CaseQuantileRows ==
    {ks \in [1..3 -> {"06"} \X {JoinTokens(<<<<"1">>, Wk, Inc, Case>>)} \X {100, 500, 900}] :
        {ks[i][3] : i \in 1..3} = {100, 500, 900}}

\* National and cumulative rows, and a row of another region.
ExtraKeys ==
    ({"US"} \X PivotTargets \X {100}) \cup
    ({"06"} \X {JoinTokens(<<<<"1">>, Wk, Cum, Case>>),
                JoinTokens(<<<<"1">>, Wk, Cum, Death>>)} \X {100}) \cup
    {<<"48", JoinTokens(<<<<"2">>, Wk, Inc, Case>>), 500>>}

SyntheticFeeds ==
    {base \o extra : base \in CaseQuantileRows,
                     extra \in {<<>>} \cup KeySeqs(ExtraKeys, MaxExtraRows)}

ForecastFeeds == KeySeqs(ForecastKeys, MaxForecastRows) \cup
                 KeySeqs(PivotKeys, MaxPivotRows) \cup
                 SyntheticFeeds

\* load_source_data: one model and one forecast_date are being served.
LongForm(ks) ==
    [i \in DOMAIN ks |->
        [model_abbr |-> "COVIDhub-ensemble", unit |-> ks[i][1],
         forecast_date |-> 0, target |-> ks[i][2], quantile |-> ks[i][3],
         value |-> 10 * i]]

---------------------------------------------------------------------------
(* The statements of ForecastHubUpdater.transform.                         *)

\* The rows that do not have the four tokens of "X wk inc/cum cases/deaths".
RowsWithoutFourTokens(d) == {i \in DOMAIN d : Len(Split(d[i].target)) # 4}

\* The rows for which int(x.target.split(" ")[0]) raises ValueError.
UnparsableRows(d) == {i \in DOMAIN d : ~IsInt(Split(d[i].target)[1])}

\* df["target_date"], df["target_type"], df["target_summation"] of one row
WithTargetColumns(r) ==
    LET tokens == Split(r.target)
    IN  [model_abbr |-> r.model_abbr, unit |-> r.unit,
         forecast_date |-> r.forecast_date, target |-> r.target,
         quantile |-> r.quantile, value |-> r.value,
         target_date |-> r.forecast_date + DAYS_PER_WEEK * IntOf(tokens[1]),
         target_type |-> LastToken(tokens),
         target_summation |-> PenultimateToken(tokens)]

\* The masks without the national forecast one.
MaskKeepingNational(r) ==
    /\ r.quantile # NULL
    /\ r.target_summation = Inc
    /\ r.target_date <= r.forecast_date + DAYS_PER_WEEK * HORIZON_WEEKS

\* np.logical_and.reduce(masks) of one row
mask(r) ==
    /\ r.unit # "US"
    /\ r.quantile # NULL
    /\ r.target_summation = Inc
    /\ r.target_date <= r.forecast_date + DAYS_PER_WEEK * HORIZON_WEEKS

\* df[mask][COLUMNS] of one row
SelectColumns(r) ==
    [model_abbr |-> r.model_abbr, unit |-> r.unit,
     forecast_date |-> r.forecast_date, target_date |-> r.target_date,
     target_type |-> r.target_type, quantile |-> r.quantile, value |-> r.value]

filter_rows(d) ==
    LET kept == Where(d, mask)
    IN  [i \in DOMAIN kept |-> SelectColumns(kept[i])]

\* The index set before the first pivot.
LongIndex(r) ==
    [model_abbr |-> r.model_abbr, unit |-> r.unit,
     forecast_date |-> r.forecast_date, target_date |-> r.target_date,
     quantile |-> r.quantile]

\* pivot raises "Index contains duplicate entries, cannot reshape".
pivot_has_duplicates(d) ==
    \E i, j \in DOMAIN d :
        i # j /\ LongIndex(d[i]) = LongIndex(d[j]) /\ d[i].target_type = d[j].target_type

\* df.pivot(columns="target_type"), droplevel, reset_index: one row for each
\* index, one column for each target type, a cell missing where no row of the
\* long form has that index and type.
pivot_target_type(d) ==
    LET types == {d[i].target_type : i \in DOMAIN d}
        cell(k, t) ==
            IF \E i \in DOMAIN d : LongIndex(d[i]) = k /\ d[i].target_type = t
            THEN d[CHOOSE i \in DOMAIN d :
                       LongIndex(d[i]) = k /\ d[i].target_type = t].value
            ELSE NULL
    IN  [columns |-> types,
         rows |-> {[index |-> k, values |-> [t \in types |-> cell(k, t)]] :
                      k \in {LongIndex(d[i]) : i \in DOMAIN d}}]

\* Fields: the target types that have a common field.
CommonFieldOf ==
    (Case :> "weekly_new_cases") @@ (Death :> "weekly_new_deaths")

\* helpers.rename_fields(pivot, Fields, set(), _logger): the columns under
\* their common field names, the columns without one removed.
rename_forecast_fields(pv) ==
    LET kept == pv.columns \cap DOMAIN CommonFieldOf
        fields == {CommonFieldOf[t] : t \in kept}
        typeOf(f) == CHOOSE t \in kept : CommonFieldOf[t] = f
    IN  [columns |-> fields,
         rows |-> {[fips |-> r.index.unit, date |-> r.index.target_date,
                    model_abbr |-> r.index.model_abbr,
                    forecast_date |-> r.index.forecast_date,
                    quantile |-> r.index.quantile,
                    values |-> [f \in fields |-> r.values[typeOf(f)]]] :
                      r \in pv.rows}]

\* The index set before the second pivot.
WideIndex(r) ==
    [fips |-> r.fips, date |-> r.date, model_abbr |-> r.model_abbr,
     forecast_date |-> r.forecast_date]

\* The name with the quantile first.
ColumnNameQuantileFirst(field, q) == <<QuantileStr[q], "_", field>>

\* x[0] + "_" + str(x[1])
ColumnName(field, q) == <<field, "_", QuantileStr[q]>>

\* set_index(...).pivot(columns=QUANTILE), the flattened column names,
\* reset_index: one row for each index, one column for each value field and
\* quantile.
pivot_quantile(data) ==
    LET qs == {r.quantile : r \in data.rows}
        cols == data.columns \X qs
        cell(k, c) ==
            IF \E r \in data.rows : WideIndex(r) = k /\ r.quantile = c[2]
            THEN (CHOOSE r \in data.rows :
                      WideIndex(r) = k /\ r.quantile = c[2]).values[c[1]]
            ELSE NULL
    IN  [columns |-> {ColumnName(c[1], c[2]) : c \in cols},
         rows |-> {[index |-> k,
                    values |-> [n \in {ColumnName(c[1], c[2]) : c \in cols} |->
                                  cell(k, CHOOSE c \in cols :
                                              ColumnName(c[1], c[2]) = n)]] :
                      k \in {WideIndex(r) : r \in data.rows}}]

NoWide == [columns |-> {}, rows |-> {}]

CountyIdle ==
    /\ today = 0
    /\ fetch_covid_us = FALSE
    /\ fetch_usafacts_covid = FALSE
    /\ pc = "idle"
    /\ job = "none"
    /\ raw = NoTable
    /\ df = NoTable
    /\ counties = NoTable
    /\ states = NoTable
    /\ before = NoTables
    /\ log = <<>>
    /\ err = "none"
    /\ files = {}

InitForecast ==
    /\ CountyIdle
    /\ f_pc = "load"
    /\ f_in = <<>>
    /\ f_df = <<>>
    /\ f_wide = NoWide
    /\ f_err = "none"

\* transform is called with the table load_source_data read.
LoadSourceData ==
    /\ f_pc = "load"
    /\ \E ks \in ForecastFeeds :
          /\ f_in' = LongForm(ks)
          /\ f_df' = LongForm(ks)
    /\ f_pc' = "parse"
    /\ UNCHANGED <<f_wide, f_err, countyVars>>

\* df["target_date"] = ..., df["target_type"] = ..., df["target_summation"] = ...
ParseTargets ==
    /\ f_pc = "parse"
    /\ IF UnparsableRows(f_df) # {}
       THEN /\ f_pc' = "aborted"
            /\ f_err' = "ValueError: invalid literal for int()"
            /\ f_df' = f_df
       ELSE /\ f_pc' = "filter"
            /\ f_err' = f_err
            /\ f_df' = [i \in DOMAIN f_df |-> WithTargetColumns(f_df[i])]
    /\ UNCHANGED <<f_in, f_wide, countyVars>>

\* df = df[mask][COLUMNS].copy()
FilterRows ==
    /\ f_pc = "filter"
    /\ f_df' = filter_rows(f_df)
    /\ f_pc' = "pivot_type"
    /\ UNCHANGED <<f_in, f_wide, f_err, countyVars>>

\* df.set_index([...]); pivot = df.pivot(columns="target_type")
PivotTargetType ==
    /\ f_pc = "pivot_type"
    /\ IF pivot_has_duplicates(f_df)
       THEN /\ f_pc' = "aborted"
            /\ f_err' = "ValueError: Index contains duplicate entries"
            /\ f_df' = f_df
       ELSE /\ f_pc' = "rename"
            /\ f_err' = f_err
            /\ f_df' = pivot_target_type(f_df)
    /\ UNCHANGED <<f_in, f_wide, countyVars>>

\* The reshaping of a table the masks left no row of is not relied on: it may
\* as well raise.
PivotOfEmptyRaises ==
    /\ f_pc = "pivot_type"
    /\ f_df = <<>>
    /\ f_pc' = "aborted"
    /\ f_err' = "Error: cannot reshape an empty table"
    /\ UNCHANGED <<f_in, f_df, f_wide, countyVars>>

\* data = helpers.rename_fields(pivot, Fields, set(), _logger)
RenameForecastFields ==
    /\ f_pc = "rename"
    /\ f_df' = rename_forecast_fields(f_df)
    /\ f_pc' = "pivot_quantile"
    /\ UNCHANGED <<f_in, f_wide, f_err, countyVars>>

\* wide_df = data.set_index([...]).pivot(columns=QUANTILE); return wide_df
PivotQuantile ==
    /\ f_pc = "pivot_quantile"
    /\ f_wide' = pivot_quantile(f_df)
    /\ f_pc' = "done"
    /\ UNCHANGED <<f_in, f_df, f_err, countyVars>>

NextForecast ==
    \/ LoadSourceData
    \/ ParseTargets
    \/ FilterRows
    \/ PivotTargetType
    \/ PivotOfEmptyRaises
    \/ RenameForecastFields
    \/ PivotQuantile

SpecForecast == InitForecast /\ [][NextForecast]_vars

---------------------------------------------------------------------------
(* Claims about ForecastHubUpdater.transform.                              *)

ForecastParsed == f_pc \in {"filter", "pivot_type", "rename", "pivot_quantile", "done"}

ForecastReturned == f_pc = "done"

TokenCount(r) == Len(Split(r.target))

FirstTokenIsInteger(r) ==
    LET t == Split(r.target)[1]
    IN  t # <<>> /\ \A i \in DOMAIN t :
            t[i] \in {"0", "1", "2", "3", "4", "5", "6", "7", "8", "9"}

IntError == "ValueError: invalid literal for int()"

PassesRules(r) ==
    LET t == Split(r.target)
    IN  /\ r.unit # "US"
        /\ r.quantile # NULL
        /\ Len(t) >= 2
        /\ t[Len(t) - 1] = <<"i", "n", "c">>
        /\ t[1] \in {<<"0">>, <<"1">>, <<"2">>, <<"3">>, <<"4">>}

\* The output row, and the output column, an input row is pivoted into.
WideRowOf(r) ==
    [fips |-> r.unit,
     date |-> r.forecast_date + 7 * IntOf(Split(r.target)[1]),
     model_abbr |-> r.model_abbr, forecast_date |-> r.forecast_date]

WideFieldOf(r) ==
    LET t == Split(r.target)
        type == t[Len(t)]
    IN  IF type = <<"c", "a", "s", "e">> THEN "weekly_new_cases"
        ELSE IF type = <<"d", "e", "a", "t", "h">> THEN "weekly_new_deaths"
        ELSE "none"

WideQuantileOf(r) ==
    IF r.quantile = 100 THEN "0.1"
    ELSE IF r.quantile = 500 THEN "0.5"
    ELSE IF r.quantile = 900 THEN "0.9"
    ELSE "none"

WideColumnOf(r) == <<WideFieldOf(r), "_", WideQuantileOf(r)>>

PassingRows == {i \in DOMAIN f_in : PassesRules(f_in[i])}

(* C10: the four filtering rules are applied before the pivots and all of  *)
(* them are enforced.  The table that is pivoted holds the input rows with *)
(* a unit other than "US", a quantile, an "inc" target and a target date   *)
(* at most 4 weeks after the forecast date, and no other row.  Every row   *)
(* and every value of the returned table comes from such an input row,     *)
(* every column of it has the value field of such a row and the quantile   *)
(* of such a row, and the value of an input row that fails a rule is       *)
(* nowhere in the returned table.                                          *)
C10_FilteredBeforePivot ==
    /\ f_pc = "pivot_type" =>
          /\ \A j \in DOMAIN f_df :
                \E i \in PassingRows : f_df[j].value = f_in[i].value
          /\ \A i \in PassingRows :
                \E j \in DOMAIN f_df : f_df[j].value = f_in[i].value
    /\ ForecastReturned =>
          /\ \A r \in f_wide.rows :
                \E i \in PassingRows : WideRowOf(f_in[i]) = r.index
          /\ \A c \in f_wide.columns :
                /\ \E i \in PassingRows : WideFieldOf(f_in[i]) = c[1]
                /\ \E i \in PassingRows : WideQuantileOf(f_in[i]) = c[3]
          /\ \A r \in f_wide.rows : \A c \in f_wide.columns :
                r.values[c] # NULL =>
                    \E i \in PassingRows :
                        /\ f_in[i].value = r.values[c]
                        /\ WideRowOf(f_in[i]) = r.index
                        /\ WideColumnOf(f_in[i]) = c
          /\ \A i \in DOMAIN f_in \ PassingRows :
                \A r \in f_wide.rows : \A c \in f_wide.columns :
                    r.values[c] # f_in[i].value

\* A table with a value in it is returned from an input that also holds a
\* national row which passes the other three rules.
C10_Witness ==
    /\ ForecastReturned
    /\ \E r \in f_wide.rows : \E c \in f_wide.columns : r.values[c] # NULL
    /\ \E i \in DOMAIN f_in :
          /\ f_in[i].unit = "US"
          /\ PassesRules([f_in[i] EXCEPT !.unit = "06"])

\* The value fields and the quantiles of the rows that pass the rules.
PassingFields == {WideFieldOf(f_in[i]) : i \in PassingRows}

PassingQuantiles == {WideQuantileOf(f_in[i]) : i \in PassingRows}

\* The input as in the synthetic example: the rows that pass the rules are
\* "case" rows and have the quantiles 0.1, 0.5 and 0.9.
CaseWithThreeQuantiles ==
    /\ PassingFields = {"weekly_new_cases"}
    /\ PassingQuantiles = {"0.1", "0.5", "0.9"}

(* C11: the table returned by ForecastHubUpdater.transform has one row for *)
(* each (region, target date, model, forecast date) of the input rows that *)
(* pass the filtering rules and one column for each value field and        *)
(* quantile of those rows, named <field>_<quantile>; a cell holds the      *)
(* value of the input row of that key, field and quantile, and is missing  *)
(* where there is no such row.  When the rows that pass are "case" rows of *)
(* the quantiles 0.1, 0.5 and 0.9, the value columns are exactly           *)
(* weekly_new_cases_0.1, weekly_new_cases_0.5 and weekly_new_cases_0.9,    *)
(* whatever national or cumulative rows the input also holds.              *)
C11_TwoStagePivot ==
    ForecastReturned =>
        /\ {r.index : r \in f_wide.rows} = {WideRowOf(f_in[i]) : i \in PassingRows}
        /\ \A r1, r2 \in f_wide.rows : r1.index = r2.index => r1 = r2
        /\ f_wide.columns = {<<f, "_", q>> : f \in PassingFields, q \in PassingQuantiles}
        /\ \A r \in f_wide.rows : \A c \in f_wide.columns :
              LET from == {i \in PassingRows :
                              WideRowOf(f_in[i]) = r.index /\ WideColumnOf(f_in[i]) = c}
              IN  IF from = {} THEN r.values[c] = NULL
                  ELSE \A i \in from : r.values[c] = f_in[i].value
        /\ CaseWithThreeQuantiles =>
              f_wide.columns = {<<"weekly_new_cases", "_", "0.1">>,
                                <<"weekly_new_cases", "_", "0.5">>,
                                <<"weekly_new_cases", "_", "0.9">>}

\* The table of the synthetic example is returned: the three columns, one row
\* with the three values, from an input that also holds a national row and a
\* cumulative row.
C11_Witness ==
    /\ ForecastReturned
    /\ CaseWithThreeQuantiles
    /\ \E i \in DOMAIN f_in : f_in[i].unit = "US"
    /\ \E i \in DOMAIN f_in : Split(f_in[i].target)[3] = <<"c", "u", "m">>
    /\ \E r \in f_wide.rows :
          {r.values[c] : c \in f_wide.columns} = {f_in[i].value : i \in PassingRows}

---------------------------------------------------------------------------
(* Claim about the state-level bed data in CovidCountyDataTransformer      *)
(* .transform.                                                             *)

HhsBedFields == {"icu_beds", "hospital_beds_in_use_any", "staffed_beds", "current_icu_total"}

TwoDigitFips(r) == Len(r.fips) = 2

(* C12: in the table returned by transform no row with a 2-digit FIPS has  *)
(* a value for icu_beds, hospital_beds_in_use_any, staffed_beds or         *)
(* current_icu_total, whatever the feed delivered for that state: the      *)
(* drop removes those four columns from the state table and changes        *)
(* nothing else of it and nothing of the county table, and the concat      *)
(* leaves the four fields of the state rows missing and passes on every    *)
(* other field of the state rows and every field of the county rows as the *)
(* earlier steps delivered them; in the returned table the county rows     *)
(* still carry the four values of the feed.                                *)
C12_StateBedFieldsDropped ==
    /\ JustDone = "dropcols" =>
          /\ counties = before.counties
          /\ Len(states) = Len(before.states)
          /\ \A i \in DOMAIN states :
                /\ DOMAIN states[i] = (DOMAIN before.states[i]) \ HhsBedFields
                /\ \A c \in DOMAIN states[i] : states[i][c] = before.states[i][c]
    /\ JustDone = "concat" /\ job = "covid_us" =>
          /\ Len(df) = Len(before.states) + Len(before.counties)
          /\ \A i \in DOMAIN before.states :
                /\ \A c \in HhsBedFields : df[i][c] = NULL
                /\ \A c \in DOMAIN before.states[i] : df[i][c] = before.states[i][c]
          /\ \A j \in DOMAIN before.counties :
                df[Len(before.states) + j] = before.counties[j]
    /\ Returned /\ job = "covid_us" =>
          \A i \in DOMAIN df :
              IF TwoDigitFips(df[i])
              THEN /\ \A c \in HhsBedFields : df[i][c] = NULL
                   /\ df[i].cases # NULL
              ELSE \A c \in HhsBedFields : df[i][c] # NULL

\* transform returns a table with a state row and a county row, the feed
\* having delivered the four bed values for both.
C12_Witness ==
    /\ Returned
    /\ job = "covid_us"
    /\ \E i \in DOMAIN df : TwoDigitFips(df[i])
    /\ \E i \in DOMAIN df : ~TwoDigitFips(df[i])
    /\ \A i \in DOMAIN raw :
          /\ raw[i].icu_beds_capacity_count # NULL
          /\ raw[i].hospital_beds_in_use_any # NULL
          /\ raw[i].hospital_beds_capacity_count # NULL
          /\ raw[i].icu_beds_in_use_any # NULL

=============================================================================
